---- MODULE Spec2Model ----
(***************************************************************************)
(* MobileNetV2 (src/MobileNet/model_v2.py): the channel rounding rule      *)
(* _make_divisible, the ConvBNReLU unit, the InvertedResidual block and    *)
(* the assembly loop and forward pass of MobileNetV2.                      *)
(*                                                                         *)
(* Numbers that are floats in the source (the width multiplier alpha, the  *)
(* raw channel count ch) are exact rationals <<numerator, denominator>>    *)
(* with a positive denominator.  A tensor is its shape <<B, C, H, W>>      *)
(* (or <<B, F>> once flattened); a layer that is handed a channel count    *)
(* other than the one it was built for yields the Mismatch shape.          *)
(***************************************************************************)
EXTENDS Integers, Sequences, FiniteSets, TLC

VARIABLES
    \* one call of _make_divisible
    md_pc, md_ch, md_divisor, md_min_ch, md_new_ch,
    \* one InvertedResidual, built and run on its own
    ir_pc, ir_args, ir_block, ir_x, ir_out,
    \* MobileNetV2.__init__ and MobileNetV2.forward
    pc, alpha, round_nearest, num_classes,
    input_channel, last_channel, output_channel, stage, i,
    features, classifier, x, pos, log

md_vars == <<md_pc, md_ch, md_divisor, md_min_ch, md_new_ch>>
ir_vars == <<ir_pc, ir_args, ir_block, ir_x, ir_out>>
net_vars == <<pc, alpha, round_nearest, num_classes, input_channel, last_channel,
              output_channel, stage, i, features, classifier, x, pos, log>>
vars == <<md_vars, ir_vars, net_vars>>

---------------------------------------------------------------------------
(* Bounds of the model *)

\* raw channel counts are k / RawDen, k in 0 .. MaxRawNum
RawDen == 10
MaxRawNum == 450
\* divisors 1 .. MaxDivisor
MaxDivisor == 9
\* explicit min_ch values 0 .. MaxMinCh
MaxMinCh == 11
\* a block built on its own: channel counts 1 .. MaxChannel, strides
\* 1 .. MaxStride, expansion factors 1 .. MaxExpand
MaxChannel == 4
MaxStride == 2
MaxExpand == 6
\* inputs: batch sizes 1 .. MaxBatch, spatial sides 1 .. MaxSide
MaxBatch == 2
MaxSide == 3
\* width multipliers are k / AlphaDen, k in 1 .. MaxAlphaNum
AlphaDen == 20
MaxAlphaNum == 28
\* a network is run on images of sides 1 .. MaxNetSide and 224
MaxNetSide == 1

---------------------------------------------------------------------------
(* Arithmetic of the source on exact rationals *)

Max(a, b) == IF a >= b THEN a ELSE b

\* Python's int(): truncation toward zero of the rational q
IntTrunc(q) == IF q[1] >= 0 THEN q[1] \div q[2] ELSE -((-q[1]) \div q[2])

\* ch + divisor / 2 (true division), as a rational
PlusHalf(ch, divisor) == <<2 * ch[1] + divisor * ch[2], 2 * ch[2]>>

\* new_ch < 0.9 * ch
BelowNineTenths(new_ch, ch) == 10 * new_ch * ch[2] < 9 * ch[1]

\* a missing argument (None) is <<>>, a given one is <<v>>
None == <<>>

_make_divisible_unguarded(ch, divisor, min_ch) ==
    LET m == IF min_ch = None THEN divisor ELSE min_ch[1]
    IN  Max(m, (IntTrunc(PlusHalf(ch, divisor)) \div divisor) * divisor)

_make_divisible_round_down(ch, divisor, min_ch) ==
    LET m == IF min_ch = None THEN divisor ELSE min_ch[1]
        new_ch == Max(m, (IntTrunc(ch) \div divisor) * divisor)
    IN  IF BelowNineTenths(new_ch, ch) THEN new_ch + divisor ELSE new_ch

_make_divisible(ch, divisor, min_ch) ==
    LET m == IF min_ch = None THEN divisor ELSE min_ch[1]
        new_ch == Max(m, (IntTrunc(PlusHalf(ch, divisor)) \div divisor) * divisor)
    IN  IF BelowNineTenths(new_ch, ch) THEN new_ch + divisor ELSE new_ch

---------------------------------------------------------------------------
(* The layers of the tensor library, by the arguments the source gives them *)

Conv2d(in_channels, out_channels, kernel_size, stride, padding, groups, bias) ==
    [kind |-> "Conv2d", in_channels |-> in_channels, out_channels |-> out_channels,
     kernel_size |-> kernel_size, stride |-> stride, padding |-> padding,
     groups |-> groups, bias |-> bias]

BatchNorm2d(num_features) == [kind |-> "BatchNorm2d", num_features |-> num_features]

ReLU6 == [kind |-> "ReLU6", inplace |-> TRUE]

Dropout == [kind |-> "Dropout"]

Linear(in_features, out_features) ==
    [kind |-> "Linear", in_features |-> in_features, out_features |-> out_features,
     bias |-> TRUE]

\* ConvBNReLU built without padding
ConvBNReLU_no_padding(in_channel, out_channel, kernel_size, stride, groups) ==
    [kind |-> "ConvBNReLU",
     seq |-> << Conv2d(in_channel, out_channel, kernel_size, stride, 0, groups, FALSE),
                BatchNorm2d(out_channel),
                ReLU6 >>]

\* ConvBNReLU(in_channel, out_channel, kernel_size=3, stride=1, groups=1)
ConvBNReLU(in_channel, out_channel, kernel_size, stride, groups) ==
    LET padding == (kernel_size - 1) \div 2
    IN  [kind |-> "ConvBNReLU",
         seq |-> << Conv2d(in_channel, out_channel, kernel_size, stride, padding,
                           groups, FALSE),
                    BatchNorm2d(out_channel),
                    ReLU6 >>]

\* the block with the expansion stage built whatever expand_ratio is
InvertedResidual_always_expand(in_channel, out_channel, stride, expand_ratio) ==
    LET hidden_channel == in_channel * expand_ratio
    IN  [kind |-> "InvertedResidual",
         use_shortcut |-> (stride = 1 /\ in_channel = out_channel),
         conv |-> << ConvBNReLU(in_channel, hidden_channel, 1, 1, 1),
                     ConvBNReLU(hidden_channel, hidden_channel, 3, stride, hidden_channel),
                     Conv2d(hidden_channel, out_channel, 1, 1, 0, 1, FALSE),
                     BatchNorm2d(out_channel) >>]

\* the block with the shortcut decided by the channel counts alone
InvertedResidual_ignore_stride(in_channel, out_channel, stride, expand_ratio) ==
    LET hidden_channel == in_channel * expand_ratio
    IN  [kind |-> "InvertedResidual",
         use_shortcut |-> (in_channel = out_channel),
         conv |-> (IF expand_ratio # 1
                     THEN << ConvBNReLU(in_channel, hidden_channel, 1, 1, 1) >>
                     ELSE << >>)
                  \o << ConvBNReLU(hidden_channel, hidden_channel, 3, stride, hidden_channel),
                        Conv2d(hidden_channel, out_channel, 1, 1, 0, 1, FALSE),
                        BatchNorm2d(out_channel) >>]

InvertedResidual(in_channel, out_channel, stride, expand_ratio) ==
    LET hidden_channel == in_channel * expand_ratio
        use_shortcut == stride = 1 /\ in_channel = out_channel
        layers0 == IF expand_ratio # 1
                     THEN << ConvBNReLU(in_channel, hidden_channel, 1, 1, 1) >>
                     ELSE << >>
        layers == layers0 \o
                  << ConvBNReLU(hidden_channel, hidden_channel, 3, stride, hidden_channel),
                     Conv2d(hidden_channel, out_channel, 1, 1, 0, 1, FALSE),
                     BatchNorm2d(out_channel) >>
    IN  [kind |-> "InvertedResidual", use_shortcut |-> use_shortcut, conv |-> layers]

---------------------------------------------------------------------------
(* Forward computation on shapes *)

\* the outcome of a layer that was handed a tensor it was not built for
Mismatch == << >>

\* one spatial side after a convolution
ConvSide(n, l) == (n + 2 * l.padding - l.kernel_size) \div l.stride + 1

\* a primitive layer l applied to the shape s
LayerForward(l, s) ==
    IF s = Mismatch THEN Mismatch
    ELSE CASE l.kind = "Conv2d" ->
                IF Len(s) = 4 /\ s[2] = l.in_channels
                   /\ s[3] + 2 * l.padding >= l.kernel_size
                   /\ s[4] + 2 * l.padding >= l.kernel_size
                  THEN << s[1], l.out_channels, ConvSide(s[3], l), ConvSide(s[4], l) >>
                  ELSE Mismatch
           [] l.kind = "BatchNorm2d" ->
                IF Len(s) = 4 /\ s[2] = l.num_features THEN s ELSE Mismatch
           [] l.kind = "ReLU6" -> s
           [] l.kind = "Dropout" -> s
           [] l.kind = "Linear" ->
                IF s[Len(s)] = l.in_features
                  THEN [k \in 1 .. Len(s) |-> IF k = Len(s) THEN l.out_features ELSE s[k]]
                  ELSE Mismatch

\* nn.Sequential of primitive layers
RECURSIVE LayersForward(_, _)
LayersForward(ls, s) ==
    IF ls = << >> THEN s ELSE LayersForward(Tail(ls), LayerForward(Head(ls), s))

\* a member of a block's pipeline: a ConvBNReLU or a primitive layer
UnitForward(m, s) ==
    IF m.kind = "ConvBNReLU" THEN LayersForward(m.seq, s) ELSE LayerForward(m, s)

\* nn.Sequential of pipeline members: self.conv(x)
RECURSIVE PipelineForward(_, _)
PipelineForward(ms, s) ==
    IF ms = << >> THEN s ELSE PipelineForward(Tail(ms), UnitForward(Head(ms), s))

\* x + y on shapes (the sum of two tensors of one shape has that shape; the
\* source adds only under use_shortcut)
Add(a, b) == IF a = b THEN a ELSE Mismatch

\* InvertedResidual.forward: what self.conv(x) gave, what is returned, and
\* whether the input was added
InvertedResidualForward(b, s) ==
    LET y == PipelineForward(b.conv, s)
    IN  IF b.use_shortcut
          THEN [conv |-> y, ret |-> Add(s, y), added |-> TRUE]
          ELSE [conv |-> y, ret |-> y, added |-> FALSE]

---------------------------------------------------------------------------
(* One call of _make_divisible on inputs of a bounded set *)

RawSet == {<<k, RawDen>> : k \in 0 .. MaxRawNum} \cup {<<32, 1>>, <<1280, 1>>}

MdIdle ==
    /\ md_pc = "idle" /\ md_ch = <<0, 1>> /\ md_divisor = 1
    /\ md_min_ch = None /\ md_new_ch = None

IrIdle ==
    /\ ir_pc = "idle" /\ ir_args = <<>> /\ ir_block = <<>>
    /\ ir_x = <<>> /\ ir_out = <<>>

NetIdle ==
    /\ pc = "idle" /\ alpha = <<1, 1>> /\ round_nearest = 8 /\ num_classes = 0
    /\ input_channel = 0 /\ last_channel = 0 /\ output_channel = 0
    /\ stage = 0 /\ i = 0 /\ features = <<>> /\ classifier = <<>>
    /\ x = <<>> /\ pos = 0 /\ log = <<>>

InitRound ==
    /\ IrIdle /\ NetIdle
    /\ md_pc = "call"
    /\ md_ch \in RawSet
    /\ md_divisor \in 1 .. MaxDivisor
    /\ md_min_ch \in {None} \cup {<<m>> : m \in 0 .. MaxMinCh}
    /\ md_new_ch = None

MakeDivisibleCall ==
    /\ md_pc = "call"
    /\ md_new_ch' = <<_make_divisible(md_ch, md_divisor, md_min_ch)>>
    /\ md_pc' = "return"
    /\ UNCHANGED <<md_ch, md_divisor, md_min_ch, ir_vars, net_vars>>

NextRound == MakeDivisibleCall

SpecRound == InitRound /\ [][NextRound]_vars

---------------------------------------------------------------------------
(* MobileNetV2.__init__ and MobileNetV2.forward *)

\* c * alpha for an integer c and the rational alpha
Times(c, q) == << c * q[1], q[2] >>

\* the table with the fourth stage repeated 3 times
inverted_residual_setting_short_stage ==
    << << 1, 16, 1, 1 >>,
       << 6, 24, 2, 2 >>,
       << 6, 32, 3, 2 >>,
       << 6, 64, 3, 2 >>,
       << 6, 96, 3, 1 >>,
       << 6, 160, 3, 2 >>,
       << 6, 320, 1, 1 >> >>

\* t, c, n, s
inverted_residual_setting ==
    << << 1, 16, 1, 1 >>,
       << 6, 24, 2, 2 >>,
       << 6, 32, 3, 2 >>,
       << 6, 64, 4, 2 >>,
       << 6, 96, 3, 1 >>,
       << 6, 160, 3, 2 >>,
       << 6, 320, 1, 1 >> >>

\* the arguments a network is built with, and the inputs it is run on
AlphaSet == {<< k, AlphaDen >> : k \in 1 .. MaxAlphaNum}
RoundSet == {4, 8, 16}
ClassSet == {10, 1000}
SideSet == (1 .. MaxNetSide) \cup {224}

InitNet ==
    /\ MdIdle /\ IrIdle
    /\ pc = "init"
    /\ alpha \in AlphaSet
    /\ round_nearest \in RoundSet
    /\ num_classes \in ClassSet
    /\ input_channel = 0 /\ last_channel = 0 /\ output_channel = 0
    /\ stage = 0 /\ i = 0
    /\ features = << >> /\ classifier = << >>
    /\ x = << >> /\ pos = 0 /\ log = << >>

\* lines 76-77
ComputeChannels ==
    /\ pc = "init"
    /\ input_channel' = _make_divisible(Times(32, alpha), round_nearest, None)
    /\ last_channel' = _make_divisible(Times(1280, alpha), round_nearest, None)
    /\ pc' = "stem"
    /\ UNCHANGED <<alpha, round_nearest, num_classes, output_channel, stage, i,
                   features, classifier, x, pos, log, md_vars, ir_vars>>

\* line 92
AppendStem ==
    /\ pc = "stem"
    /\ features' = Append(features, ConvBNReLU(3, input_channel, 3, 2, 1))
    /\ pc' = "stages"
    /\ UNCHANGED <<alpha, round_nearest, num_classes, input_channel, last_channel,
                   output_channel, stage, i, classifier, x, pos, log, md_vars, ir_vars>>

\* lines 94-95: the next tuple of the table
StageBegin ==
    /\ pc = "stages"
    /\ stage < Len(inverted_residual_setting)
    /\ stage' = stage + 1
    /\ output_channel' =
          _make_divisible(Times(inverted_residual_setting[stage + 1][2], alpha),
                          round_nearest, None)
    /\ i' = 0
    /\ pc' = "blocks"
    /\ UNCHANGED <<alpha, round_nearest, num_classes, input_channel, last_channel,
                   features, classifier, x, pos, log, md_vars, ir_vars>>

\* every block of a stage built with the stage's stride
AppendBlock_every_stride ==
    /\ pc = "blocks"
    /\ i < inverted_residual_setting[stage][3]
    /\ features' = Append(features,
                          InvertedResidual(input_channel, output_channel,
                                           inverted_residual_setting[stage][4],
                                           inverted_residual_setting[stage][1]))
    /\ input_channel' = output_channel
    /\ i' = i + 1
    /\ UNCHANGED <<pc, alpha, round_nearest, num_classes, last_channel, output_channel,
                   stage, classifier, x, pos, log, md_vars, ir_vars>>

\* the running channel count updated only from the second block of a stage on
AppendBlock_late_update ==
    /\ pc = "blocks"
    /\ i < inverted_residual_setting[stage][3]
    /\ features' = Append(features,
                          InvertedResidual(input_channel, output_channel,
                                           IF i = 0 THEN inverted_residual_setting[stage][4]
                                                    ELSE 1,
                                           inverted_residual_setting[stage][1]))
    /\ input_channel' = IF i = 0 THEN input_channel ELSE output_channel
    /\ i' = i + 1
    /\ UNCHANGED <<pc, alpha, round_nearest, num_classes, last_channel, output_channel,
                   stage, classifier, x, pos, log, md_vars, ir_vars>>

\* lines 96-99: one pass of the inner loop
AppendBlock ==
    /\ pc = "blocks"
    /\ i < inverted_residual_setting[stage][3]
    /\ LET t == inverted_residual_setting[stage][1]
           s == inverted_residual_setting[stage][4]
           stride == IF i = 0 THEN s ELSE 1
       IN  features' = Append(features,
                              InvertedResidual(input_channel, output_channel, stride, t))
    /\ input_channel' = output_channel
    /\ i' = i + 1
    /\ UNCHANGED <<pc, alpha, round_nearest, num_classes, last_channel, output_channel,
                   stage, classifier, x, pos, log, md_vars, ir_vars>>

\* line 96: range(n) is exhausted
StageEnd ==
    /\ pc = "blocks"
    /\ i = inverted_residual_setting[stage][3]
    /\ pc' = "stages"
    /\ UNCHANGED <<alpha, round_nearest, num_classes, input_channel, last_channel,
                   output_channel, stage, i, features, classifier, x, pos, log,
                   md_vars, ir_vars>>

\* lines 94, 101: the table is exhausted
AppendHead ==
    /\ pc = "stages"
    /\ stage = Len(inverted_residual_setting)
    /\ features' = Append(features, ConvBNReLU(input_channel, last_channel, 1, 1, 1))
    /\ pc' = "classifier"
    /\ UNCHANGED <<alpha, round_nearest, num_classes, input_channel, last_channel,
                   output_channel, stage, i, classifier, x, pos, log, md_vars, ir_vars>>

\* the classifier built for the running channel count
BuildClassifier_running_width ==
    /\ pc = "classifier"
    /\ classifier' = << Dropout, Linear(input_channel, num_classes) >>
    /\ pc' = "built"
    /\ UNCHANGED <<alpha, round_nearest, num_classes, input_channel, last_channel,
                   output_channel, stage, i, features, x, pos, log, md_vars, ir_vars>>

\* lines 106-110; the initialization pass of lines 113-123 fills parameter
\* values, which are not part of the state
BuildClassifier ==
    /\ pc = "classifier"
    /\ classifier' = << Dropout, Linear(last_channel, num_classes) >>
    /\ pc' = "built"
    /\ UNCHANGED <<alpha, round_nearest, num_classes, input_channel, last_channel,
                   output_channel, stage, i, features, x, pos, log, md_vars, ir_vars>>

\* a member of self.features applied to the shape s
FeatureForward(m, s) ==
    IF m.kind = "InvertedResidual"
      THEN InvertedResidualForward(m, s)
      ELSE [conv |-> UnitForward(m, s), ret |-> UnitForward(m, s), added |-> FALSE]

\* forward is called on a batch of 3-channel images
ForwardCall ==
    /\ pc = "built"
    /\ \E B \in 1 .. MaxBatch, H \in SideSet, W \in SideSet : x' = << B, 3, H, W >>
    /\ pos' = 1
    /\ log' = << >>
    /\ pc' = "features"
    /\ UNCHANGED <<alpha, round_nearest, num_classes, input_channel, last_channel,
                   output_channel, stage, i, features, classifier, md_vars, ir_vars>>

\* line 126: nn.Sequential hands x to the next member of self.features
FeaturesStep ==
    /\ pc = "features"
    /\ pos <= Len(features)
    /\ LET r == FeatureForward(features[pos], x)
       IN  /\ x' = r.ret
           /\ log' = Append(log, [inp |-> x, conv |-> r.conv, ret |-> r.ret,
                                  added |-> r.added])
    /\ pos' = pos + 1
    /\ UNCHANGED <<pc, alpha, round_nearest, num_classes, input_channel, last_channel,
                   output_channel, stage, i, features, classifier, md_vars, ir_vars>>

\* line 127: AdaptiveAvgPool2d((1, 1))
AvgPool ==
    /\ pc = "features"
    /\ pos > Len(features)
    /\ x' = IF x = Mismatch THEN Mismatch ELSE << x[1], x[2], 1, 1 >>
    /\ pc' = "flatten"
    /\ UNCHANGED <<alpha, round_nearest, num_classes, input_channel, last_channel,
                   output_channel, stage, i, features, classifier, pos, log,
                   md_vars, ir_vars>>

\* line 128: torch.flatten(x, 1)
Flatten ==
    /\ pc = "flatten"
    /\ x' = IF x = Mismatch THEN Mismatch ELSE << x[1], x[2] * x[3] * x[4] >>
    /\ pc' = "classify"
    /\ UNCHANGED <<alpha, round_nearest, num_classes, input_channel, last_channel,
                   output_channel, stage, i, features, classifier, pos, log,
                   md_vars, ir_vars>>

\* lines 129-131
Classify ==
    /\ pc = "classify"
    /\ x' = LayersForward(classifier, x)
    /\ pc' = "done"
    /\ UNCHANGED <<alpha, round_nearest, num_classes, input_channel, last_channel,
                   output_channel, stage, i, features, classifier, pos, log,
                   md_vars, ir_vars>>

Next ==
    \/ ComputeChannels
    \/ AppendStem
    \/ StageBegin
    \/ AppendBlock
    \/ StageEnd
    \/ AppendHead
    \/ BuildClassifier
    \/ ForwardCall
    \/ FeaturesStep
    \/ AvgPool
    \/ Flatten
    \/ Classify

Spec == InitNet /\ [][Next]_vars

---------------------------------------------------------------------------
(* Claims about _make_divisible, checked under SpecRound *)

MdReturned == md_pc = "return"
MdResult == md_new_ch[1]

\* C3: for every raw >= 0, _make_divisible(raw, 8) with min_ch unset is a
\* positive multiple of 8, at least 8, and at least 0.9 * raw, whether or not
\* the 10% guard fires; _make_divisible(32, 8) = 32 and
\* _make_divisible(1280, 8) = 1280.
C3_RoundingBound ==
    (MdReturned /\ md_divisor = 8 /\ md_min_ch = None) =>
        /\ MdResult >= 8
        /\ MdResult % 8 = 0
        /\ ~BelowNineTenths(MdResult, md_ch)
        /\ (md_ch = <<32, 1>> => MdResult = 32)
        /\ (md_ch = <<1280, 1>> => MdResult = 1280)

\* the guard fired on a fractional raw value, divisor 8, min_ch unset
C3_Witness ==
    /\ MdReturned /\ md_divisor = 8 /\ md_min_ch = None
    /\ md_ch[1] % md_ch[2] # 0
    /\ MdResult = _make_divisible_unguarded(md_ch, 8, None) + 8

\* the rule as the specification words it: one floor of the exact quotient
\* (raw + divisor/2) / divisor
RuleCandidate(raw, divisor, min_channels) ==
    Max(min_channels,
        ((2 * raw[1] + divisor * raw[2]) \div (2 * raw[2] * divisor)) * divisor)

RuleResult(raw, divisor, min_channels) ==
    LET candidate == RuleCandidate(raw, divisor, min_channels)
    IN  IF 10 * candidate * raw[2] < 9 * raw[1]
          THEN candidate + divisor ELSE candidate

MdMinChannels == IF md_min_ch = None THEN md_divisor ELSE md_min_ch[1]

\* C7: for every raw >= 0, positive divisor and min_ch (unset meaning
\* divisor), _make_divisible returns candidate + divisor when
\* candidate < 0.9 * raw and candidate otherwise, where candidate =
\* max(min_ch, floor((raw + divisor/2) / divisor) * divisor): the code's
\* truncation followed by integer floor division equals the specified floor,
\* and at most one divisor increment is added.
C7_RuleAgreement ==
    MdReturned =>
        /\ MdResult = RuleResult(md_ch, md_divisor, MdMinChannels)
        /\ MdResult \in {RuleCandidate(md_ch, md_divisor, MdMinChannels),
                         RuleCandidate(md_ch, md_divisor, MdMinChannels) + md_divisor}

\* an explicit min_ch, a raw value whose sum with divisor/2 is not an integer
\* (the truncation drops something), and the guard fired
C7_Witness ==
    /\ MdReturned /\ md_min_ch # None /\ md_divisor > 1
    /\ PlusHalf(md_ch, md_divisor)[1] % PlusHalf(md_ch, md_divisor)[2] # 0
    /\ MdResult = RuleCandidate(md_ch, md_divisor, MdMinChannels) + md_divisor

---------------------------------------------------------------------------
(* One InvertedResidual built from arguments of a bounded set and run once *)

InitBlock ==
    /\ MdIdle /\ NetIdle
    /\ ir_pc = "new"
    /\ ir_args \in [in_channel : 1 .. MaxChannel, out_channel : 1 .. MaxChannel,
                    stride : 1 .. MaxStride, expand_ratio : 1 .. MaxExpand]
    /\ ir_block = << >> /\ ir_x = << >> /\ ir_out = << >>

IrBuild ==
    /\ ir_pc = "new"
    /\ ir_block' = InvertedResidual(ir_args.in_channel, ir_args.out_channel,
                                    ir_args.stride, ir_args.expand_ratio)
    /\ ir_pc' = "built"
    /\ UNCHANGED <<ir_args, ir_x, ir_out, md_vars, net_vars>>

IrForward ==
    /\ ir_pc = "built"
    /\ \E B \in 1 .. MaxBatch, C \in 1 .. MaxChannel,
          H \in 1 .. MaxSide, W \in 1 .. MaxSide :
          /\ ir_x' = << B, C, H, W >>
          /\ ir_out' = InvertedResidualForward(ir_block, << B, C, H, W >>)
    /\ ir_pc' = "done"
    /\ UNCHANGED <<ir_args, ir_block, md_vars, net_vars>>

NextBlock == IrBuild \/ IrForward

SpecBlock == InitBlock /\ [][NextBlock]_vars

---------------------------------------------------------------------------
(* Claims about one InvertedResidual, checked under SpecBlock *)

IrBuilt == ir_pc \in {"built", "done"}
IrHidden == ir_args.in_channel * ir_args.expand_ratio
IrOffset == IF ir_args.expand_ratio # 1 THEN 1 ELSE 0

\* m is a bias-free convolution with these arguments
IsConv(m, cin, cout, k, s, p, g) ==
    /\ m.kind = "Conv2d"
    /\ m.in_channels = cin /\ m.out_channels = cout
    /\ m.kernel_size = k /\ m.stride = s /\ m.padding = p /\ m.groups = g
    /\ m.bias = FALSE

IsNorm(m, n) == m.kind = "BatchNorm2d" /\ m.num_features = n

\* m is convolution, normalization over cout channels, bounded nonlinearity
IsConvNormAct(m, cin, cout, k, s, p, g) ==
    /\ m.kind = "ConvBNReLU"
    /\ Len(m.seq) = 3
    /\ IsConv(m.seq[1], cin, cout, k, s, p, g)
    /\ IsNorm(m.seq[2], cout)
    /\ m.seq[3].kind = "ReLU6"

C8_ShortcutShapes ==
    (ir_pc = "done" /\ ir_block.use_shortcut /\ ir_x[2] = ir_args.in_channel) =>
        /\ ir_out.conv = ir_x
        /\ ir_out.ret = ir_x
        /\ ir_out.ret # Mismatch

\* a shortcut block with an expansion stage was run on a 1 x MaxSide input
C8_Witness ==
    /\ ir_pc = "done" /\ ir_block.use_shortcut /\ ir_out.added
    /\ ir_args.expand_ratio > 1
    /\ ir_x[2] = ir_args.in_channel /\ ir_x[3] = 1 /\ ir_x[4] > 1
    /\ ir_out.ret = ir_x

---------------------------------------------------------------------------
(* Claims about the built network, checked under Spec *)

\* what a block was built with, read off the layers it holds
BlockIn(b) == b.conv[1].seq[1].in_channels
BlockOut(b) == b.conv[Len(b.conv)].num_features
BlockHidden(b) == b.conv[Len(b.conv) - 2].seq[1].out_channels
BlockStride(b) == b.conv[Len(b.conv) - 2].seq[1].stride

\* what a ConvBNReLU was built with
UnitIn(u) == u.seq[1].in_channels
UnitOut(u) == u.seq[2].num_features

IsBlock(m) == m.kind = "InvertedResidual"
FeatureOut(m) == IF IsBlock(m) THEN BlockOut(m) ELSE UnitOut(m)

Assembled == pc \in {"classifier", "built", "features", "flatten", "classify", "done"}
UnitAlpha == alpha[1] = alpha[2]

\* the number of members of features before the first block of stage k
RECURSIVE StageOffset(_)
StageOffset(k) ==
    IF k = 1 THEN 1 ELSE StageOffset(k - 1) + inverted_residual_setting[k - 1][3]

NumStages == Len(inverted_residual_setting)

ShortcutRule(b) == BlockStride(b) = 1 /\ BlockIn(b) = BlockOut(b)

C1_Flags ==
    /\ \A p \in 1 .. Len(features) :
          IsBlock(features[p]) => (features[p].use_shortcut <=> ShortcutRule(features[p]))
    /\ \A p \in 1 .. Len(log) :
          IsBlock(features[p]) =>
             /\ log[p].added <=> ShortcutRule(features[p])
             /\ log[p].ret = IF ShortcutRule(features[p])
                               THEN Add(log[p].inp, log[p].conv)
                               ELSE log[p].conv

C1_Fixed ==
    \A p \in 1 .. Len(features) :
        /\ p <= Len(features')
        /\ features'[p] = features[p]

\* C1: in every built network, for every width multiplier and rounding
\* granularity, a block's use_shortcut is true iff the block's own stride is 1
\* and its own in_channels equals its own out_channels; the flag never
\* changes once the block is built, and forward returns
\* input + pipeline(input) exactly when the flag is true and pipeline(input)
\* otherwise.
C1_ShortcutGating == [] C1_Flags /\ [][C1_Fixed]_vars

\* forward has run over a stage's first block with stride 2 whose in_channels
\* equals its out_channels (no shortcut) and over a block with the shortcut
C1_Witness ==
    /\ pc = "done"
    /\ \E p \in 1 .. Len(log) :
          /\ IsBlock(features[p])
          /\ BlockStride(features[p]) = 2
          /\ BlockIn(features[p]) = BlockOut(features[p])
          /\ ~features[p].use_shortcut /\ ~log[p].added
    /\ \E p \in 1 .. Len(log) :
          /\ IsBlock(features[p]) /\ features[p].use_shortcut /\ log[p].added
          /\ log[p].ret = log[p].inp

\* C2: after every step of the assembly loop, for every width multiplier and
\* rounding granularity: the first block's in_channels is the stem's output
\* channel count, every later block's in_channels is the out_channels of the
\* block appended just before it, and the final 1x1 ConvBNReLU takes the
\* out_channels of the last block.
C2_ChannelPropagation ==
    /\ \A p \in 2 .. Len(features) :
          IF IsBlock(features[p])
            THEN BlockIn(features[p]) = FeatureOut(features[p - 1])
            ELSE /\ IsBlock(features[p - 1])
                 /\ UnitIn(features[p]) = BlockOut(features[p - 1])
    /\ Len(features) >= 1 =>
          /\ ~IsBlock(features[1])
          /\ pc \in {"stages", "blocks"} => input_channel = FeatureOut(features[Len(features)])

\* a network narrower than the default is assembled, with channel counts that
\* change across stage boundaries
C2_Witness ==
    /\ Assembled /\ ~UnitAlpha
    /\ Len(features) = StageOffset(NumStages) + 2
    /\ BlockIn(features[3]) # BlockIn(features[2])
    /\ UnitIn(features[Len(features)]) = BlockOut(features[Len(features) - 1])
    /\ BlockIn(features[2]) = UnitOut(features[1])

\* the input forward was called with, while it runs
ForwardInput == log[1].inp
UnitStride(m) == IF IsBlock(m) THEN BlockStride(m) ELSE m.seq[1].stride

\* C4: in a network built with alpha = 1.0 and num_classes = 1000, an input
\* [B, 3, 224, 224] (B = 2 included) is halved by the stem and by every
\* stride-2 block down to a 7x7 map with last_channel channels, pooled to 1x1,
\* flattened to [B, last_channel] and mapped to [B, 1000], and no layer is
\* handed a channel count other than the one it was built for.
C4_ShapeRoundTrip ==
    (/\ UnitAlpha /\ num_classes = 1000 /\ Len(log) >= 1
     /\ ForwardInput[3] = 224 /\ ForwardInput[4] = 224) =>
        /\ \A p \in 1 .. Len(log) :
              /\ log[p].conv # Mismatch /\ log[p].ret # Mismatch
              /\ log[p].ret[1] = ForwardInput[1]
              /\ log[p].ret[2] = FeatureOut(features[p])
              /\ log[p].ret[3] = (IF UnitStride(features[p]) = 2 THEN log[p].inp[3] \div 2
                                                                  ELSE log[p].inp[3])
              /\ log[p].ret[4] = log[p].ret[3]
        /\ Len(log) = Len(features) =>
              log[Len(log)].ret = << ForwardInput[1], last_channel, 7, 7 >>
        /\ pc = "flatten" => x = << ForwardInput[1], last_channel, 1, 1 >>
        /\ pc = "classify" => x = << ForwardInput[1], last_channel >>
        /\ pc = "done" => x = << ForwardInput[1], 1000 >>
        /\ round_nearest = 8 => last_channel = 1280

\* forward has returned [2, 1000] for a [2, 3, 224, 224] input
C4_Witness ==
    /\ pc = "done" /\ UnitAlpha /\ round_nearest = 8 /\ num_classes = 1000
    /\ ForwardInput = << 2, 3, 224, 224 >>
    /\ log[Len(log)].ret = << 2, 1280, 7, 7 >>
    /\ x = << 2, 1000 >>

\* C5: with alpha = 1.0 and round_nearest = 8 the feature sequence is the
\* stem ConvBNReLU, 17 InvertedResidual blocks (1+2+3+4+3+3+1 in stage order)
\* and the head ConvBNReLU, 19 units; the stem gives 32 channels, the head
\* 1280, and the first blocks of the seven stages take 32, 16, 24, 32, 64, 96
\* and 160 channels.
C5_DefaultLayout ==
    (Assembled /\ UnitAlpha /\ round_nearest = 8) =>
        LET first == << 2, 3, 5, 8, 12, 15, 18, 19 >>
            ins == << 32, 16, 24, 32, 64, 96, 160 >>
            outs == << 16, 24, 32, 64, 96, 160, 320 >>
        IN  /\ Len(features) = 19
            /\ features[1].kind = "ConvBNReLU" /\ features[19].kind = "ConvBNReLU"
            /\ \A p \in 2 .. 18 : IsBlock(features[p])
            /\ UnitIn(features[1]) = 3 /\ UnitOut(features[1]) = 32
            /\ UnitOut(features[19]) = 1280
            /\ \A k \in 1 .. 7 :
                  /\ BlockIn(features[first[k]]) = ins[k]
                  /\ \A p \in first[k] .. first[k + 1] - 1 : BlockOut(features[p]) = outs[k]

\* the default network is assembled
C5_Witness ==
    /\ pc = "built" /\ UnitAlpha /\ round_nearest = 8
    /\ Len(features) = 19 /\ stage = 7
    /\ BlockIn(features[18]) = 160 /\ BlockOut(features[18]) = 320

\* C6: for every stage tuple (t, c, n, s) the loop appends exactly n blocks,
\* all with expansion factor t and out_channels =
\* _make_divisible(c * alpha, round_nearest); the block of index 0 has stride
\* s and every block of index >= 1 has stride 1.
C6_StageBlocks ==
    /\ \A k \in 1 .. NumStages :
          \A j \in 0 .. inverted_residual_setting[k][3] - 1 :
             LET q == StageOffset(k) + j + 1
                 t == inverted_residual_setting[k][1]
                 c == inverted_residual_setting[k][2]
                 s == inverted_residual_setting[k][4]
             IN  q <= Len(features) =>
                    /\ IsBlock(features[q])
                    /\ BlockStride(features[q]) = (IF j = 0 THEN s ELSE 1)
                    /\ BlockOut(features[q]) =
                          _make_divisible(Times(c, alpha), round_nearest, None)
                    /\ BlockHidden(features[q]) = t * BlockIn(features[q])
                    /\ (t = 1) <=> (Len(features[q].conv) = 3)
    /\ pc = "blocks" =>
          /\ i <= inverted_residual_setting[stage][3]
          /\ Len(features) = StageOffset(stage) + i
    /\ pc = "stages" => Len(features) = StageOffset(stage + 1)
    /\ Assembled =>
          /\ Len(features) = StageOffset(NumStages + 1) + 1
          /\ ~IsBlock(features[Len(features)])

\* a stage of stride 2 with several blocks is complete
C6_Witness ==
    /\ Assembled /\ ~UnitAlpha
    /\ BlockStride(features[8]) = 2
    /\ \A p \in 9 .. 11 : BlockStride(features[p]) = 1 /\ BlockOut(features[p]) = BlockOut(features[8])
    /\ BlockOut(features[12]) # BlockOut(features[11])

\* the block b with its depthwise stride set to 1
WithUnitStride(b) == [b EXCEPT !.conv[Len(b.conv) - 2].seq[1].stride = 1]

====
